---- MODULE Spec2Model ----
(***************************************************************************)
(* Model of internal/bstore/blockstore.go: the BlockStore facade, its      *)
(* per-stream write locks, the relocation-address allocator, the           *)
(* Generation write transaction and the read path.                         *)
(*                                                                         *)
(* Every blocking call of the source is one step, so that the              *)
(* interleavings of concurrent writers and readers are those of the code:  *)
(* glock.Lock, mtx.Lock, glock.Unlock, the provider calls of               *)
(* ObtainGeneration and Commit, glock.RLock, mtx.Unlock, glock.RUnlock.    *)
(***************************************************************************)
EXTENDS Integers, Sequences, FiniteSets, TLC

\* ---------------------------------------------------------------- bounds
\* Width of an address (uint64 in the source, scaled down).
AddrBits == 3
\* Capacity of the alloc channel (256 in the source, scaled down).
ChanCap == 2
\* Size of the relocation range (2^56 addresses in the source, scaled down).
RelocSpan == 3
\* allocateBlock calls made in one run at most.
MaxAllocs == 2
\* allocateBlock calls made in one run of the allocator's specification.
MaxCalls == 5
\* cfg.BlockCache(): the configured cache size.
CacheMax == 2
\* ReadDatablock calls made in one run at most.
MaxReads == 4
\* Blocks of the database an existing store is opened on.
DbBlocks == 3

Writers == {"w1", "w2"}
Readers == {"r1", "r2"}
Streams == {"A", "B"}
Payloads == {"p", "q"}
NoThread == "none"
NoStream == "none"

AddrMod == 2 ^ AddrBits
\* The relocation range is the top of the address space; the provider's
\* durable addresses lie below it.
RELOCATION_BASE == AddrMod - RelocSpan
DurableMax == RELOCATION_BASE - 1

Core == "Core"
Vector == "Vector"

VARIABLES
    wlocks,           \* bs._wlocks and the state of each mutex in it
    glockW,           \* the thread holding bs.glock for writing
    glockR,           \* the threads holding bs.glock for reading
    alloc,            \* bs.alloc, the channel's contents
    relocation_addr,  \* the generator goroutine's counter
    version,          \* provider: the stream version of each stream
    superblocks,      \* provider: the superblock records written
    store,            \* provider: the block payloads, by durable address
    pc,               \* each writer's position
    wid,              \* each writer's stream id
    gen,              \* each writer's Generation
    amap,             \* the address map each writer's Commit computed
    err,              \* what each writer's last Commit returned
    cachemap,         \* bs.cachemap: address -> decoded block
    lru,              \* the cache's list, from bs.cachenew to bs.cacheold
    cachelen,         \* bs.cachelen
    cachehit,         \* bs.cachehit
    cachemiss,        \* bs.cachemiss
    rpc,              \* each reader's position
    rblock,           \* the block a reader decoded and has yet to cache
    rres,             \* what kind of value a reader's last call returned
    rret,             \* the block a reader's last ReadDatablock returned
    rsb,              \* the superblock a reader's last LoadSuperblock returned
    rarg,             \* LoadSuperblock's stream and generation
    rctx,             \* ReadDatablock's impl_Generation, impl_Pointwidth, impl_StartTime
    recency,          \* history: the addresses put or hit, last use first
    reads,            \* history: the ReadDatablock calls started
    tmproot,          \* history: the address each writer gave UpdateRootAddr
    handed,           \* history: the addresses allocateBlock returned
    wrapped,          \* history: the generator's counter was reset
    commits,          \* history: the versions published, per stream
    allocated         \* history: the blocks allocated and populated

vars == <<wlocks, glockW, glockR, alloc, relocation_addr, version, superblocks,
          store, pc, wid, gen, amap, err, cachemap, lru, cachelen, cachehit,
          cachemiss, rpc, rblock, rres, rret, rsb, rarg, rctx, recency, reads,
          tmproot, handed, wrapped, commits, allocated>>

cacheVars == <<cachemap, lru, cachelen, cachehit, cachemiss, recency>>
readerVars == <<cacheVars, rpc, rblock, rres, rret, rsb, rarg, rctx, reads>>
writerVars == <<pc, wid, gen, amap, err, tmproot>>

lockVars == <<wlocks, glockW, glockR>>
allocVars == <<alloc, relocation_addr, wrapped>>
providerVars == <<version, superblocks, store>>
histVars == <<handed, commits, allocated>>

\* ------------------------------------------------------------ superblock
NoSB == [uuid |-> NoStream, gen |-> 0, root |-> 0]

NewSuperblock(id) == [uuid |-> id, gen |-> 1, root |-> 0]

CloneInc(sb) == [uuid |-> sb.uuid, gen |-> sb.gen + 1, root |-> sb.root]

Serialize(sb) == <<sb.uuid, sb.gen, sb.root>>

\* The record is checked against the stream and generation asked for.
DeserializeSuperblock(id, g, sbarr) ==
    IF sbarr[1] = id /\ sbarr[2] = g
    THEN [uuid |-> id, gen |-> g, root |-> sbarr[3]]
    ELSE NoSB

\* ------------------------------------------------------------- provider
NoBytes == <<>>

GetStreamVersion(id) == version[id]

ReadSuperBlock(id, g) ==
    IF \E r \in superblocks : r.uuid = id /\ r.gen = g
    THEN (CHOOSE r \in superblocks : r.uuid = id /\ r.gen = g).bytes
    ELSE NoBytes

WriteSuperBlock(id, g, bytes) ==
    {r \in superblocks : ~(r.uuid = id /\ r.gen = g)}
        \cup {[uuid |-> id, gen |-> g, bytes |-> bytes]}

\* Read returns the payload at addr, or nothing when none was written.
Read(addr) == IF addr \in DOMAIN store THEN store[addr] ELSE NoBytes

\* ---------------------------------------------------------------- blocks
NewBlock(kind, addr, g, payload) ==
    [kind |-> kind, Identifier |-> addr, Generation |-> g,
     PointWidth |-> 0, StartTime |-> 0, payload |-> payload]

NoBlock == NewBlock("none", 0, 0, "none")

\* The serialized form carries the type tag and the payload only.
SerializeBlock(b) == <<b.kind, b.payload>>

\* Deserialize fills the type-specific fields in from the buffer; the
\* caller stamps Identifier, Generation, PointWidth and StartTime.
DeserializeBlock(kind, buf) ==
    [kind |-> kind, Identifier |-> 0, Generation |-> 0, PointWidth |-> 0,
     StartTime |-> 0, payload |-> buf[2]]

DatablockGetBufferType(buf) ==
    IF Len(buf) = 0 THEN "Bad"
    ELSE IF buf[1] = Core THEN Core
    ELSE IF buf[1] = Vector THEN Vector
    ELSE "Bad"

\* ------------------------------------------------------------ generation
NoGeneration ==
    [Cur_SB |-> NoSB, New_SB |-> NoSB, cblocks |-> <<>>, vblocks |-> <<>>,
     flushed |-> FALSE]

NoMap == [t \in {} |-> 0]

Uuid(g) == g.Cur_SB.uuid

Number(g) == g.New_SB.gen

\* The blocks LinkAndStore is given, in the order it writes them.
BlocksOf(g) == g.vblocks \o g.cblocks

\* Block i of the sequence is written at the next free durable address;
\* the map takes each temporary address to the address of the last block
\* written under it.
LinkAndStoreMap(blocks, base) ==
    [t \in {blocks[i].Identifier : i \in DOMAIN blocks} |->
        base + (CHOOSE i \in DOMAIN blocks :
                    /\ blocks[i].Identifier = t
                    /\ \A j \in DOMAIN blocks :
                          blocks[j].Identifier = t => j <= i)]

LinkAndStoreWrite(blocks) ==
    store \o [i \in DOMAIN blocks |-> SerializeBlock(blocks[i])]

\* ------------------------------------------------------------------ Init
Init ==
    /\ wlocks = [s \in Streams |-> "absent"]
    /\ glockW = NoThread
    /\ glockR = {}
    /\ alloc = <<>>
    /\ relocation_addr = RELOCATION_BASE
    /\ version = [s \in Streams |-> 0]
    /\ superblocks = {}
    /\ store = <<>>
    /\ pc = [w \in Writers |-> "idle"]
    /\ wid = [w \in Writers |-> NoStream]
    /\ gen = [w \in Writers |-> NoGeneration]
    /\ amap = [w \in Writers |-> NoMap]
    /\ err = [w \in Writers |-> "none"]
    /\ cachemap = NoMap
    /\ lru = <<>>
    /\ cachelen = 0
    /\ cachehit = 0
    /\ cachemiss = 0
    /\ rpc = [r \in Readers |-> "idle"]
    /\ rblock = [r \in Readers |-> NoBlock]
    /\ rres = [r \in Readers |-> "none"]
    /\ rret = [r \in Readers |-> NoBlock]
    /\ rsb = [r \in Readers |-> NoSB]
    /\ rarg = [r \in Readers |-> <<NoStream, 0>>]
    /\ rctx = [r \in Readers |-> <<0, 0, 0>>]
    /\ recency = <<>>
    /\ reads = 0
    /\ tmproot = [w \in Writers |-> 0]
    /\ handed = <<>>
    /\ wrapped = FALSE
    /\ commits = [s \in Streams |-> <<>>]
    /\ allocated = {}

\* ------------------------------------------------------------- allocator
\* Mutant: the counter is not incremented.
NextRelocationAddr_Stuck(a) == a

\* Mutant: the counter wraps and is not reset to the base.
NextRelocationAddr_NoReset(a) == (a + 1) % AddrMod

\* relocation_addr += 1, and the reset when the sum wrapped below the base.
NextRelocationAddr(a) ==
    LET n == (a + 1) % AddrMod
    IN  IF n < RELOCATION_BASE THEN RELOCATION_BASE ELSE n

\* Mutant: the generator goroutine ends when its counter overflows.
Generator_Ends ==
    /\ ~wrapped
    /\ Len(alloc) < ChanCap
    /\ alloc' = Append(alloc, relocation_addr)
    /\ relocation_addr' = NextRelocationAddr(relocation_addr)
    /\ wrapped' = (wrapped \/ (relocation_addr + 1) % AddrMod < RELOCATION_BASE)
    /\ UNCHANGED <<readerVars, tmproot>>
    /\ UNCHANGED <<lockVars, providerVars, pc, wid, gen, amap, err, histVars>>

\* One turn of the generator goroutine's loop: the send blocks while the
\* channel is full.
Generator ==
    /\ Len(alloc) < ChanCap
    /\ alloc' = Append(alloc, relocation_addr)
    /\ relocation_addr' = NextRelocationAddr(relocation_addr)
    /\ wrapped' = (wrapped \/ (relocation_addr + 1) % AddrMod < RELOCATION_BASE)
    /\ UNCHANGED <<readerVars, tmproot>>
    /\ UNCHANGED <<lockVars, providerVars, pc, wid, gen, amap, err, histVars>>

\* <-bs.alloc: the receive blocks while the channel is empty.
allocateBlockReady == Len(alloc) > 0

allocateBlock == Head(alloc)

\* ------------------------------------------------------ ObtainGeneration
GlockFree == glockW = NoThread /\ glockR = {}

\* Mutant: mtx.Lock() that returns whatever the state of the mutex.
MutexLockReady_Always(id) == TRUE

\* mtx.Lock() returns only when the mutex is unlocked.
MutexLockReady(id) == wlocks[id] # "locked"

\* bs.glock.Lock()
OG_GlockLock(w, id) ==
    /\ pc[w] = "idle"
    /\ GlockFree
    /\ glockW' = w
    /\ wid' = [wid EXCEPT ![w] = id]
    /\ pc' = [pc EXCEPT ![w] = "og_mtx"]
    /\ UNCHANGED <<readerVars, tmproot>>
    /\ UNCHANGED <<wlocks, glockR, allocVars, providerVars, gen, amap, err, histVars>>

\* The lookup in _wlocks, and mtx.Lock() on the new or the existing mutex:
\* the caller holds glock while it waits for the mutex.
OG_MutexLock(w) ==
    /\ pc[w] = "og_mtx"
    /\ MutexLockReady(wid[w])
    /\ wlocks' = [wlocks EXCEPT ![wid[w]] = "locked"]
    /\ pc' = [pc EXCEPT ![w] = "og_gunlock"]
    /\ UNCHANGED <<readerVars, tmproot>>
    /\ UNCHANGED <<glockW, glockR, allocVars, providerVars, wid, gen, amap, err, histVars>>

\* bs.glock.Unlock()
OG_GlockUnlock(w) ==
    /\ pc[w] = "og_gunlock"
    /\ glockW' = NoThread
    /\ pc' = [pc EXCEPT ![w] = "og_load"]
    /\ UNCHANGED <<readerVars, tmproot>>
    /\ UNCHANGED <<wlocks, glockR, allocVars, providerVars, wid, gen, amap, err, histVars>>

\* Mutant: every Generation starts from a fresh superblock.
LoadCur_Fresh(id) == NewSuperblock(id)

\* The superblock the new Generation starts from.
LoadCur(id) ==
    LET existingVer == GetStreamVersion(id)
    IN  IF existingVer = 0 THEN NewSuperblock(id)
        ELSE DeserializeSuperblock(id, existingVer, ReadSuperBlock(id, existingVer))

\* GetStreamVersion, ReadSuperBlock, CloneInc and the return.
OG_Load(w) ==
    /\ pc[w] = "og_load"
    /\ LET existingVer == GetStreamVersion(wid[w])
       IN  IF existingVer # 0 /\ ReadSuperBlock(wid[w], existingVer) = NoBytes
           THEN /\ pc' = [pc EXCEPT ![w] = "panicked"]
                /\ gen' = gen
           ELSE /\ pc' = [pc EXCEPT ![w] = "open"]
                /\ gen' = [gen EXCEPT ![w] =
                      [Cur_SB |-> LoadCur(wid[w]),
                       New_SB |-> CloneInc(LoadCur(wid[w])),
                       cblocks |-> <<>>, vblocks |-> <<>>, flushed |-> FALSE]]
    /\ amap' = [amap EXCEPT ![w] = NoMap]
    /\ err' = [err EXCEPT ![w] = "none"]
    /\ tmproot' = [tmproot EXCEPT ![w] = 0]
    /\ UNCHANGED readerVars
    /\ UNCHANGED <<lockVars, allocVars, providerVars, wid, histVars>>

\* ------------------------------------------------------------ allocation
AllocatedRecord(w, b) ==
    [uuid |-> Uuid(gen[w]), gen |-> Number(gen[w]), tmp |-> b.Identifier,
     kind |-> b.kind, payload |-> b.payload]

AllocateCoreblock(w, payload) ==
    /\ pc[w] = "open"
    /\ Len(handed) < MaxAllocs
    /\ allocateBlockReady
    /\ LET cblock == NewBlock(Core, allocateBlock, Number(gen[w]), payload)
       IN  /\ gen' = [gen EXCEPT ![w].cblocks = Append(@, cblock)]
           /\ allocated' = allocated \cup {AllocatedRecord(w, cblock)}
    /\ handed' = Append(handed, allocateBlock)
    /\ alloc' = Tail(alloc)
    /\ UNCHANGED <<readerVars, tmproot>>
    /\ UNCHANGED <<lockVars, relocation_addr, wrapped, providerVars, pc, wid, amap,
                   err, commits>>

AllocateVectorblock(w, payload) ==
    /\ pc[w] = "open"
    /\ Len(handed) < MaxAllocs
    /\ allocateBlockReady
    /\ LET vblock == NewBlock(Vector, allocateBlock, Number(gen[w]), payload)
       IN  /\ gen' = [gen EXCEPT ![w].vblocks = Append(@, vblock)]
           /\ allocated' = allocated \cup {AllocatedRecord(w, vblock)}
    /\ handed' = Append(handed, allocateBlock)
    /\ alloc' = Tail(alloc)
    /\ UNCHANGED <<readerVars, tmproot>>
    /\ UNCHANGED <<lockVars, relocation_addr, wrapped, providerVars, pc, wid, amap,
                   err, commits>>

\* AllocateVectorblock in two steps: the caller enters allocateBlock and is
\* at the receive from bs.alloc ...
AB_Call(w) ==
    /\ pc[w] = "open"
    /\ Len(handed) + Cardinality({v \in Writers : pc[v] = "ab_recv"}) < MaxCalls
    /\ pc' = [pc EXCEPT ![w] = "ab_recv"]
    /\ UNCHANGED <<readerVars, tmproot>>
    /\ UNCHANGED <<lockVars, allocVars, providerVars, wid, gen, amap, err, histVars>>

\* ... and the receive returns an address, which the new block is given.
AB_Recv(w) ==
    /\ pc[w] = "ab_recv"
    /\ allocateBlockReady
    /\ LET vblock == NewBlock(Vector, allocateBlock, Number(gen[w]), "p")
       IN  /\ gen' = [gen EXCEPT ![w].vblocks = Append(@, vblock)]
           /\ allocated' = allocated \cup {AllocatedRecord(w, vblock)}
    /\ handed' = Append(handed, allocateBlock)
    /\ alloc' = Tail(alloc)
    /\ pc' = [pc EXCEPT ![w] = "open"]
    /\ UNCHANGED <<readerVars, tmproot>>
    /\ UNCHANGED <<lockVars, relocation_addr, wrapped, providerVars, wid, amap,
                   err, commits>>

\* The caller names one of the blocks it allocated as the new root.
UpdateRootAddr(w, addr) ==
    /\ pc[w] = "open"
    /\ gen[w].New_SB.root # addr
    /\ gen' = [gen EXCEPT ![w].New_SB.root = addr]
    /\ tmproot' = [tmproot EXCEPT ![w] = addr]
    /\ UNCHANGED readerVars
    /\ UNCHANGED <<lockVars, allocVars, providerVars, pc, wid, amap, err, histVars>>

\* ---------------------------------------------------------------- Commit
\* Mutant: Commit does not look at gen.flushed.
AlreadyFlushed_Never(g) == FALSE

\* if gen.flushed
AlreadyFlushed(g) == g.flushed

\* return nil, errors.New("Already Flushed")
CommitFlushed(w) ==
    /\ pc[w] \in {"open", "held"}
    /\ AlreadyFlushed(gen[w])
    /\ err' = [err EXCEPT ![w] = "Already Flushed"]
    /\ amap' = [amap EXCEPT ![w] = NoMap]
    /\ UNCHANGED <<readerVars, tmproot>>
    /\ UNCHANGED <<lockVars, allocVars, providerVars, pc, wid, gen, histVars>>

\* Mutant: the root keeps its temporary address.
ResolveRoot_Keep(root, address_map) == root

\* rootaddr, ok := address_map[gen.New_SB.root]; gen.New_SB.root = rootaddr
ResolveRoot(root, address_map) == address_map[root]

\* Mutant: Commit goes on when the root is not in the address map.
CommitLink_NoPanic(w) ==
    /\ pc[w] \in {"open", "held"}
    /\ ~AlreadyFlushed(gen[w])
    /\ Len(store) + Len(BlocksOf(gen[w])) <= DurableMax
    /\ LET blocks == BlocksOf(gen[w])
           address_map == LinkAndStoreMap(blocks, Len(store))
       IN  /\ store' = LinkAndStoreWrite(blocks)
           /\ amap' = [amap EXCEPT ![w] = address_map]
           /\ gen' = [gen EXCEPT ![w].New_SB.root =
                         IF @ \in DOMAIN address_map
                         THEN ResolveRoot(@, address_map) ELSE 0,
                      ![w].vblocks = <<>>,
                      ![w].cblocks = <<>>]
           /\ pc' = [pc EXCEPT ![w] = "c_wsb"]
    /\ err' = [err EXCEPT ![w] = "none"]
    /\ UNCHANGED <<readerVars, tmproot>>
    /\ UNCHANGED <<lockVars, allocVars, version, superblocks, wid, histVars>>

\* LinkAndStore, the lookup of the root in the address map, the panic when
\* it is not there; then the root is set and the block lists are dropped.
CommitLink(w) ==
    /\ pc[w] \in {"open", "held"}
    /\ ~AlreadyFlushed(gen[w])
    /\ Len(store) + Len(BlocksOf(gen[w])) <= DurableMax
    /\ LET blocks == BlocksOf(gen[w])
           address_map == LinkAndStoreMap(blocks, Len(store))
       IN  /\ store' = LinkAndStoreWrite(blocks)
           /\ amap' = [amap EXCEPT ![w] = address_map]
           /\ IF gen[w].New_SB.root \in DOMAIN address_map
              THEN /\ gen' = [gen EXCEPT ![w].New_SB.root = ResolveRoot(@, address_map),
                                         ![w].vblocks = <<>>,
                                         ![w].cblocks = <<>>]
                   /\ pc' = [pc EXCEPT ![w] = "c_wsb"]
              ELSE /\ gen' = gen
                   /\ pc' = [pc EXCEPT ![w] = "panicked"]
    /\ err' = [err EXCEPT ![w] = "none"]
    /\ UNCHANGED <<readerVars, tmproot>>
    /\ UNCHANGED <<lockVars, allocVars, version, superblocks, wid, histVars>>

\* Mutant: the superblock is not written before the version is set.
CommitWriteSuperBlock_Skip(w) ==
    /\ pc[w] = "c_wsb"
    /\ pc' = [pc EXCEPT ![w] = "c_setver"]
    /\ UNCHANGED <<readerVars, tmproot>>
    /\ UNCHANGED <<lockVars, allocVars, providerVars, wid, gen, amap, err, histVars>>

\* gen.blockstore.store.WriteSuperBlock(uuid, gen, New_SB.Serialize())
CommitWriteSuperBlock(w) ==
    /\ pc[w] = "c_wsb"
    /\ superblocks' = WriteSuperBlock(gen[w].New_SB.uuid, gen[w].New_SB.gen,
                                      Serialize(gen[w].New_SB))
    /\ pc' = [pc EXCEPT ![w] = "c_setver"]
    /\ UNCHANGED <<readerVars, tmproot>>
    /\ UNCHANGED <<lockVars, allocVars, version, store, wid, gen, amap, err, histVars>>

\* gen.blockstore.store.SetStreamVersion(uuid, gen); gen.flushed = true
CommitSetStreamVersion(w) ==
    /\ pc[w] = "c_setver"
    /\ version' = [version EXCEPT ![gen[w].New_SB.uuid] = gen[w].New_SB.gen]
    /\ commits' = [commits EXCEPT ![gen[w].New_SB.uuid] = Append(@, gen[w].New_SB.gen)]
    /\ gen' = [gen EXCEPT ![w].flushed = TRUE]
    /\ pc' = [pc EXCEPT ![w] = "c_rlock"]
    /\ UNCHANGED <<readerVars, tmproot>>
    /\ UNCHANGED <<lockVars, allocVars, superblocks, store, wid, amap, err, handed,
                   allocated>>

\* gen.blockstore.glock.RLock() waits while a writer holds glock. (That a
\* Lock() which is only waiting also holds new readers back is left out:
\* it removes interleavings and adds no reachable state.)
CommitRLock(w) ==
    /\ pc[w] = "c_rlock"
    /\ glockW = NoThread
    /\ glockR' = glockR \cup {w}
    /\ pc' = [pc EXCEPT ![w] = "c_unlock"]
    /\ UNCHANGED <<readerVars, tmproot>>
    /\ UNCHANGED <<wlocks, glockW, allocVars, providerVars, wid, gen, amap, err, histVars>>

\* gen.blockstore._wlocks[UUIDToMapKey(*gen.Uuid())].Unlock()
CommitUnlock(w) ==
    /\ pc[w] = "c_unlock"
    /\ wlocks' = [wlocks EXCEPT ![Uuid(gen[w])] = "unlocked"]
    /\ pc' = [pc EXCEPT ![w] = "c_runlock"]
    /\ UNCHANGED <<readerVars, tmproot>>
    /\ UNCHANGED <<glockW, glockR, allocVars, providerVars, wid, gen, amap, err, histVars>>

\* gen.blockstore.glock.RUnlock(); return address_map, nil
CommitRUnlock(w) ==
    /\ pc[w] = "c_runlock"
    /\ glockR' = glockR \ {w}
    /\ pc' = [pc EXCEPT ![w] = "held"]
    /\ UNCHANGED <<readerVars, tmproot>>
    /\ UNCHANGED <<wlocks, glockW, allocVars, providerVars, wid, gen, amap, err, histVars>>

\* The caller lets go of a committed Generation.
Release(w) ==
    /\ pc[w] = "held"
    /\ pc' = [pc EXCEPT ![w] = "idle"]
    /\ gen' = [gen EXCEPT ![w] = NoGeneration]
    /\ wid' = [wid EXCEPT ![w] = NoStream]
    /\ amap' = [amap EXCEPT ![w] = NoMap]
    /\ err' = [err EXCEPT ![w] = "none"]
    /\ tmproot' = [tmproot EXCEPT ![w] = 0]
    /\ UNCHANGED readerVars
    /\ UNCHANGED <<lockVars, allocVars, providerVars, histVars>>

\* ----------------------------------------------------------------- cache
\* Mutant: the entry is linked at the least-recently-used end.
cachePromote_Old(vaddr) == SelectSeq(lru, LAMBDA a : a # vaddr) \o <<vaddr>>

\* The list with vaddr moved, or put, at the most-recently-used end.
cachePromote(vaddr) == <<vaddr>> \o SelectSeq(lru, LAMBDA a : a # vaddr)

\* The history of uses after a get that hit vaddr or a put of vaddr.
Used(vaddr) ==
    <<vaddr>> \o SelectSeq(recency, LAMBDA a : a # vaddr)

\* cacheGet: a hit relinks the entry and counts a hit, a miss counts a miss.
cacheGet(vaddr) ==
    IF vaddr \in DOMAIN cachemap
    THEN /\ lru' = cachePromote(vaddr)
         /\ cachehit' = cachehit + 1
         /\ recency' = Used(vaddr)
         /\ UNCHANGED <<cachemap, cachelen, cachemiss>>
    ELSE /\ cachemiss' = cachemiss + 1
         /\ UNCHANGED <<cachemap, lru, cachelen, cachehit, recency>>

\* Mutant: nothing is evicted.
cacheCheckCap_Keep(order) == order

\* The entries that stay when the list is cut to cachemax, oldest first out.
cacheCheckCap(order) == SubSeq(order, 1, IF Len(order) > CacheMax THEN CacheMax ELSE Len(order))

\* cachePut: the entry goes to the most-recently-used end, and the
\* least-recently-used entries go while there are more than cachemax.
cachePut(vaddr, item) ==
    LET order == cacheCheckCap(cachePromote(vaddr))
        kept == {order[i] : i \in DOMAIN order}
    IN  /\ lru' = order
        /\ cachemap' = [a \in kept |-> IF a = vaddr THEN item ELSE cachemap[a]]
        /\ cachelen' = Len(order)
        /\ recency' = Used(vaddr)
        /\ UNCHANGED <<cachehit, cachemiss>>

\* ---------------------------------------------------------- ReadDatablock
\* The callers' <<impl_Generation, impl_Pointwidth, impl_StartTime>>.
Contexts == {<<1, 1, 0>>, <<2, 2, 1>>}

\* The block decoded from the provider's bytes, stamped with the caller's
\* generation, point width and start time.
Decode(addr, impl_Generation, impl_Pointwidth, impl_StartTime) ==
    [DeserializeBlock(DatablockGetBufferType(Read(addr)), Read(addr))
        EXCEPT !.Identifier = addr, !.Generation = impl_Generation,
               !.PointWidth = impl_Pointwidth, !.StartTime = impl_StartTime]

\* db := bs.cacheGet(addr); a hit returns it, a miss reads and decodes.
RD_Get(r, addr, impl_Generation, impl_Pointwidth, impl_StartTime) ==
    /\ rpc[r] = "idle"
    /\ reads < MaxReads
    /\ addr \in DOMAIN store
    /\ reads' = reads + 1
    /\ cacheGet(addr)
    /\ rsb' = [rsb EXCEPT ![r] = NoSB]
    /\ rctx' = [rctx EXCEPT ![r] = <<impl_Generation, impl_Pointwidth, impl_StartTime>>]
    /\ UNCHANGED rarg
    /\ IF addr \in DOMAIN cachemap
       THEN /\ rret' = [rret EXCEPT ![r] = cachemap[addr]]
            /\ rres' = [rres EXCEPT ![r] = "block"]
            /\ UNCHANGED <<rpc, rblock>>
       ELSE IF DatablockGetBufferType(Read(addr)) = "Bad"
       THEN /\ rpc' = [rpc EXCEPT ![r] = "panicked"]
            /\ rres' = [rres EXCEPT ![r] = "none"]
            /\ rret' = [rret EXCEPT ![r] = NoBlock]
            /\ UNCHANGED rblock
       ELSE /\ rpc' = [rpc EXCEPT ![r] = "rd_put"]
            /\ rblock' = [rblock EXCEPT ![r] =
                  Decode(addr, impl_Generation, impl_Pointwidth, impl_StartTime)]
            /\ rres' = [rres EXCEPT ![r] = "none"]
            /\ rret' = [rret EXCEPT ![r] = NoBlock]
    /\ UNCHANGED <<lockVars, allocVars, providerVars, writerVars, histVars>>

\* bs.cachePut(addr, rv); return rv
RD_Put(r) ==
    /\ rpc[r] = "rd_put"
    /\ cachePut(rblock[r].Identifier, rblock[r])
    /\ rret' = [rret EXCEPT ![r] = rblock[r]]
    /\ rres' = [rres EXCEPT ![r] = "block"]
    /\ rblock' = [rblock EXCEPT ![r] = NoBlock]
    /\ rpc' = [rpc EXCEPT ![r] = "idle"]
    /\ UNCHANGED <<rsb, rarg, rctx, reads>>
    /\ UNCHANGED <<lockVars, allocVars, providerVars, writerVars, histVars>>

\* --------------------------------------------------------- LoadSuperblock
LatestGeneration == AddrMod - 1

\* Mutant: a generation beyond the latest is read like any other.
LS_Version_NoBeyond(r, id, generation) ==
    /\ rpc[r] = "idle"
    /\ LET latestGen == GetStreamVersion(id)
           g == IF generation = LatestGeneration THEN latestGen ELSE generation
       IN  IF latestGen = 0
           THEN /\ rres' = [rres EXCEPT ![r] = "nil"]
                /\ rarg' = [rarg EXCEPT ![r] = <<id, generation>>]
                /\ UNCHANGED rpc
           ELSE /\ rres' = [rres EXCEPT ![r] = "none"]
                /\ rarg' = [rarg EXCEPT ![r] = <<id, g>>]
                /\ rpc' = [rpc EXCEPT ![r] = "ls_read"]
    /\ rsb' = [rsb EXCEPT ![r] = NoSB]
    /\ rret' = [rret EXCEPT ![r] = NoBlock]
    /\ UNCHANGED <<cacheVars, rblock, rctx, reads>>
    /\ UNCHANGED <<lockVars, allocVars, providerVars, writerVars, histVars>>

\* latestGen := GetStreamVersion(id), and the generation that is read.
LS_Version(r, id, generation) ==
    /\ rpc[r] = "idle"
    /\ LET latestGen == GetStreamVersion(id)
           g == IF generation = LatestGeneration THEN latestGen ELSE generation
       IN  IF latestGen = 0 \/ g > latestGen
           THEN /\ rres' = [rres EXCEPT ![r] = "nil"]
                /\ rarg' = [rarg EXCEPT ![r] = <<id, generation>>]
                /\ UNCHANGED rpc
           ELSE /\ rres' = [rres EXCEPT ![r] = "none"]
                /\ rarg' = [rarg EXCEPT ![r] = <<id, g>>]
                /\ rpc' = [rpc EXCEPT ![r] = "ls_read"]
    /\ rsb' = [rsb EXCEPT ![r] = NoSB]
    /\ rret' = [rret EXCEPT ![r] = NoBlock]
    /\ UNCHANGED <<cacheVars, rblock, rctx, reads>>
    /\ UNCHANGED <<lockVars, allocVars, providerVars, writerVars, histVars>>

\* Mutant: LoadSuperblock takes bs.glock for reading before it reads.
LS_Read_Locked(r) ==
    /\ rpc[r] = "ls_read"
    /\ glockW = NoThread
    /\ LET sbarr == ReadSuperBlock(rarg[r][1], rarg[r][2])
       IN  IF sbarr = NoBytes
           THEN /\ rpc' = [rpc EXCEPT ![r] = "panicked"]
                /\ UNCHANGED <<rres, rsb>>
           ELSE /\ rpc' = [rpc EXCEPT ![r] = "idle"]
                /\ rres' = [rres EXCEPT ![r] = "sb"]
                /\ rsb' = [rsb EXCEPT ![r] =
                      DeserializeSuperblock(rarg[r][1], rarg[r][2], sbarr)]
    /\ rarg' = [rarg EXCEPT ![r] = <<NoStream, 0>>]
    /\ UNCHANGED <<cacheVars, rblock, rret, rctx, reads>>
    /\ UNCHANGED <<lockVars, allocVars, providerVars, writerVars, histVars>>

\* sbarr := ReadSuperBlock(id, generation, buff); the panic when there is
\* none; DeserializeSuperblock
LS_Read(r) ==
    /\ rpc[r] = "ls_read"
    /\ LET sbarr == ReadSuperBlock(rarg[r][1], rarg[r][2])
       IN  IF sbarr = NoBytes
           THEN /\ rpc' = [rpc EXCEPT ![r] = "panicked"]
                /\ UNCHANGED <<rres, rsb>>
           ELSE /\ rpc' = [rpc EXCEPT ![r] = "idle"]
                /\ rres' = [rres EXCEPT ![r] = "sb"]
                /\ rsb' = [rsb EXCEPT ![r] =
                      DeserializeSuperblock(rarg[r][1], rarg[r][2], sbarr)]
    /\ rarg' = [rarg EXCEPT ![r] = <<NoStream, 0>>]
    /\ UNCHANGED <<cacheVars, rblock, rret, rctx, reads>>
    /\ UNCHANGED <<lockVars, allocVars, providerVars, writerVars, histVars>>

\* ------------------------------------------------------------------ Next
RootChoices(w) == {BlocksOf(gen[w])[i].Identifier : i \in DOMAIN BlocksOf(gen[w])}

\* Two writers on two streams, with the generator.
Next ==
    \/ Generator
    \/ \E w \in Writers, id \in Streams : OG_GlockLock(w, id)
    \/ \E w \in Writers : OG_MutexLock(w)
    \/ \E w \in Writers : OG_GlockUnlock(w)
    \/ \E w \in Writers : OG_Load(w)
    \/ \E w \in Writers : AllocateCoreblock(w, "p")
    \/ \E w \in Writers : AllocateVectorblock(w, "p")
    \/ \E w \in Writers : \E a \in RootChoices(w) : UpdateRootAddr(w, a)
    \/ \E w \in Writers : CommitFlushed(w)
    \/ \E w \in Writers : CommitLink(w)
    \/ \E w \in Writers : CommitWriteSuperBlock(w)
    \/ \E w \in Writers : CommitSetStreamVersion(w)
    \/ \E w \in Writers : CommitRLock(w)
    \/ \E w \in Writers : CommitUnlock(w)
    \/ \E w \in Writers : CommitRUnlock(w)
    \/ \E w \in Writers : Release(w)

Spec == Init /\ [][Next]_vars

\* One writer of one stream and one reader.
TheWriter == "w1"
TheReader == "r1"
TheStream == "A"

\* The writer's part of the two specifications below.
NextWriter ==
    \/ Generator
    \/ OG_GlockLock(TheWriter, TheStream)
    \/ OG_MutexLock(TheWriter)
    \/ OG_GlockUnlock(TheWriter)
    \/ OG_Load(TheWriter)
    \/ \E p \in Payloads : AllocateCoreblock(TheWriter, p)
    \/ \E p \in Payloads : AllocateVectorblock(TheWriter, p)
    \/ \E a \in RootChoices(TheWriter) : UpdateRootAddr(TheWriter, a)
    \/ CommitFlushed(TheWriter)
    \/ CommitLink(TheWriter)
    \/ CommitWriteSuperBlock(TheWriter)
    \/ CommitSetStreamVersion(TheWriter)
    \/ CommitRLock(TheWriter)
    \/ CommitUnlock(TheWriter)
    \/ CommitRUnlock(TheWriter)
    \/ Release(TheWriter)

\* What is committed is read back with ReadDatablock.
NextRead ==
    \/ NextWriter
    \/ \E a \in DOMAIN store : RD_Get(TheReader, a, 1, 1, 0)
    \/ RD_Put(TheReader)

SpecRead == Init /\ [][NextRead]_vars

\* LoadSuperblock runs beside the writer's Commit.
NextLoad ==
    \/ NextWriter
    \/ \E id \in Streams, g \in (1 .. 3) \cup {LatestGeneration} :
          LS_Version(TheReader, id, g)
    \/ LS_Read(TheReader)

SpecLoad == Init /\ [][NextLoad]_vars

\* Readers of a store opened on an existing database: one stream, whose
\* generation 2 holds DbBlocks blocks and has the last of them as its root.
ExistingBlock(i) == IF i % 2 = 1 THEN <<Vector, "p">> ELSE <<Core, "q">>

InitCache ==
    /\ wlocks = [s \in Streams |-> "absent"]
    /\ glockW = NoThread
    /\ glockR = {}
    /\ alloc = <<>>
    /\ relocation_addr = RELOCATION_BASE
    /\ version = [s \in Streams |-> IF s = "A" THEN 2 ELSE 0]
    /\ superblocks = {[uuid |-> "A", gen |-> 2, bytes |-> <<"A", 2, DbBlocks>>]}
    /\ store = [i \in 1 .. DbBlocks |-> ExistingBlock(i)]
    /\ pc = [w \in Writers |-> "idle"]
    /\ wid = [w \in Writers |-> NoStream]
    /\ gen = [w \in Writers |-> NoGeneration]
    /\ amap = [w \in Writers |-> NoMap]
    /\ err = [w \in Writers |-> "none"]
    /\ cachemap = NoMap
    /\ lru = <<>>
    /\ cachelen = 0
    /\ cachehit = 0
    /\ cachemiss = 0
    /\ rpc = [r \in Readers |-> "idle"]
    /\ rblock = [r \in Readers |-> NoBlock]
    /\ rres = [r \in Readers |-> "none"]
    /\ rret = [r \in Readers |-> NoBlock]
    /\ rsb = [r \in Readers |-> NoSB]
    /\ rarg = [r \in Readers |-> <<NoStream, 0>>]
    /\ rctx = [r \in Readers |-> <<0, 0, 0>>]
    /\ recency = <<>>
    /\ reads = 0
    /\ tmproot = [w \in Writers |-> 0]
    /\ handed = <<>>
    /\ wrapped = FALSE
    /\ commits = [s \in Streams |-> IF s = "A" THEN <<2>> ELSE <<>>]
    /\ allocated = {}

NextCache ==
    \/ \E r \in Readers : \E a \in DOMAIN store, c \in Contexts :
          RD_Get(r, a, c[1], c[2], c[3])
    \/ \E r \in Readers : RD_Put(r)

SpecCache == InitCache /\ [][NextCache]_vars

\* A reader beside two writers of one stream of the existing database.
\* The reader's calls take no lock and wait for nothing, so a call that
\* has started takes its next step; nothing is assumed of the writers.
NextBeside ==
    \/ Generator
    \/ \E w \in Writers : OG_GlockLock(w, TheStream)
    \/ \E w \in Writers : OG_MutexLock(w)
    \/ \E w \in Writers : OG_GlockUnlock(w)
    \/ \E w \in Writers : OG_Load(w)
    \/ \E w \in Writers : AllocateVectorblock(w, "p")
    \/ \E w \in Writers : \E a \in RootChoices(w) : UpdateRootAddr(w, a)
    \/ \E w \in Writers : CommitLink(w)
    \/ \E w \in Writers : CommitWriteSuperBlock(w)
    \/ \E w \in Writers : CommitSetStreamVersion(w)
    \/ \E w \in Writers : CommitRLock(w)
    \/ \E w \in Writers : CommitUnlock(w)
    \/ \E w \in Writers : CommitRUnlock(w)
    \/ \E w \in Writers : Release(w)
    \/ RD_Get(TheReader, DbBlocks, 1, 1, 0)
    \/ RD_Put(TheReader)
    \/ LS_Version(TheReader, TheStream, LatestGeneration)
    \/ LS_Read(TheReader)

SpecBeside ==
    /\ InitCache
    /\ [][NextBeside]_vars
    /\ WF_vars(RD_Put(TheReader))
    /\ WF_vars(LS_Read(TheReader))

\* The allocator: the generator goroutine and two writers that allocate
\* more blocks than the relocation range has addresses. The goroutine runs
\* for ever, and the receivers waiting on a Go channel are served in the
\* order in which they came.
NextAlloc ==
    \/ Generator
    \/ \E w \in Writers, id \in Streams : OG_GlockLock(w, id)
    \/ \E w \in Writers : OG_MutexLock(w)
    \/ \E w \in Writers : OG_GlockUnlock(w)
    \/ \E w \in Writers : OG_Load(w)
    \/ \E w \in Writers : AB_Call(w)
    \/ \E w \in Writers : AB_Recv(w)

SpecAlloc ==
    /\ Init
    /\ [][NextAlloc]_vars
    /\ WF_vars(Generator)
    /\ \A w \in Writers : SF_vars(AB_Recv(w))

\* ================================================================ claims
\* A writer has a Generation from the return of ObtainGeneration on; the
\* Generation is live until Commit has marked it flushed.
HasGeneration(w) == gen[w] # NoGeneration

Live(w) == HasGeneration(w) /\ ~gen[w].flushed

LiveOn(id) == {w \in Writers : Live(w) /\ Uuid(gen[w]) = id}

\* A writer inside ObtainGeneration, waiting in mtx.Lock().
ObtainBlocked(w) == pc[w] = "og_mtx" /\ ~MutexLockReady(wid[w])

\* A writer inside Commit, waiting in glock.RLock().
CommitBlocked(w) == pc[w] = "c_rlock" /\ glockW # NoThread

\* C1: at most one live Generation (obtained, not yet committed) exists for
\* a stream at any time, under every interleaving of ObtainGeneration and
\* Commit of concurrent writers.
C1_OneLiveGeneration == \A id \in Streams : Cardinality(LiveOn(id)) <= 1

\* A writer has committed a Generation on a stream, a second writer has
\* obtained the next one on it and a Generation is live.
C1_Witness ==
    \E w1, w2 \in Writers :
        /\ w1 # w2
        /\ HasGeneration(w1) /\ gen[w1].flushed
        /\ Live(w2)
        /\ Uuid(gen[w2]) = Uuid(gen[w1])

\* C2: when T1 holds a Generation on S and T2 waits inside
\* ObtainGeneration(S), T1's Commit runs to completion: no state is reached
\* in which T1's Commit waits for the lock T2 holds while T2 waits for the
\* mutex T1 holds.
C2_NeverBothStuck ==
    \A t1, t2 \in Writers :
        ~(/\ t1 # t2
          /\ CommitBlocked(t1)
          /\ glockW = t2
          /\ ObtainBlocked(t2)
          /\ wid[t2] = Uuid(gen[t1]))

\* C3: the generation numbers committed on a stream that starts never
\* written are 1, 2, ..., N in commit order.
C3_GenerationsFromOne ==
    \A id \in Streams : \A k \in DOMAIN commits[id] : commits[id][k] = k

\* C4: each successful Commit publishes the version of the previous commit
\* on the stream plus 1, the stream's version is the last one published,
\* and no generation number is published twice.
C4_VersionsByOne ==
    \A id \in Streams :
        /\ \A k \in DOMAIN commits[id] : k > 1 => commits[id][k] = commits[id][k - 1] + 1
        /\ \A j, k \in DOMAIN commits[id] : j # k => commits[id][j] # commits[id][k]
        /\ Len(commits[id]) > 0 => version[id] = commits[id][Len(commits[id])]

\* Two writers have each committed a Generation on the same stream.
C4_Witness ==
    \E w1, w2 \in Writers :
        /\ w1 # w2
        /\ HasGeneration(w1) /\ gen[w1].flushed
        /\ HasGeneration(w2) /\ gen[w2].flushed
        /\ Uuid(gen[w1]) = Uuid(gen[w2])
        /\ Len(commits[Uuid(gen[w1])]) = 2

\* The superblock persisted for stream id at generation g.
Persisted(id, g) == DeserializeSuperblock(id, g, ReadSuperBlock(id, g))

\* A durable address at which a block has been written.
Durable(addr) == addr \in DOMAIN store /\ addr < RELOCATION_BASE

\* Every block allocated by generation g of stream id is in the store.
BlocksWritten(id, g) ==
    \A a \in allocated :
        (a.uuid = id /\ a.gen = g) =>
            \E d \in DOMAIN store : store[d] = <<a.kind, a.payload>>

\* C5: whenever a stream's version is g, the superblock of g is persisted
\* with a durable root and the blocks of g are written; so a LoadSuperblock
\* beside a Commit returns a superblock that was published whole.
C5_PublishedWhole ==
    /\ \A id \in Streams :
          version[id] # 0 =>
              /\ ReadSuperBlock(id, version[id]) # NoBytes
              /\ Persisted(id, version[id]).gen = version[id]
              /\ Durable(Persisted(id, version[id]).root)
              /\ BlocksWritten(id, version[id])
    /\ \A r \in Readers :
          rres[r] = "sb" =>
              /\ \E k \in DOMAIN commits[rsb[r].uuid] : commits[rsb[r].uuid][k] = rsb[r].gen
              /\ rsb[r] = Persisted(rsb[r].uuid, rsb[r].gen)
              /\ Durable(rsb[r].root)
              /\ BlocksWritten(rsb[r].uuid, rsb[r].gen)

\* A LoadSuperblock that read the version before a Commit published the
\* next one has returned the previous superblock.
C5_Witness ==
    \E r \in Readers :
        /\ rres[r] = "sb"
        /\ rsb[r].gen < version[rsb[r].uuid]
        /\ pc[TheWriter] = "c_rlock"

\* C6: a Commit on a Generation that is already flushed returns the
\* "Already Flushed" error and changes neither the stream versions, the
\* superblocks, the blocks nor any lock.
C6_SecondCommit ==
    [][\A w \in Writers :
          (/\ pc[w] = "held"
           /\ gen[w].flushed
           /\ pc'[w] # "idle"
           /\ <<pc[w], gen[w], amap[w], err[w]>> # <<pc'[w], gen'[w], amap'[w], err'[w]>>)
          => (/\ err'[w] = "Already Flushed"
              /\ pc'[w] = "held"
              /\ gen'[w] = gen[w]
              /\ UNCHANGED <<version, superblocks, store, wlocks, glockW, glockR>>)]_vars

\* A second Commit has returned the error while another writer holds a
\* live Generation on the same stream.
C6_Witness ==
    \E w1, w2 \in Writers :
        /\ w1 # w2
        /\ pc[w1] = "held" /\ err[w1] = "Already Flushed"
        /\ Live(w2) /\ Uuid(gen[w2]) = Uuid(gen[w1])
        /\ wlocks[Uuid(gen[w1])] = "locked"

\* C7: the global registry lock is never held while a caller waits for a
\* per-stream write lock.
C7_GlockNotHeldWaiting == \A w \in Writers : ~(glockW = w /\ ObtainBlocked(w))

\* C8: before the counter overflows, the addresses allocateBlock hands out
\* start at RELOCATION_BASE, are strictly increasing and pairwise distinct.
C8_AddressesIncrease ==
    /\ Len(handed) > 0 => handed[1] = RELOCATION_BASE
    /\ \A i, j \in DOMAIN handed :
          (i < j /\ j <= RelocSpan) => handed[i] < handed[j]

\* Two Generations on two streams, open at once, have each been handed an
\* address.
C8_Witness ==
    \E w1, w2 \in Writers :
        /\ w1 # w2
        /\ pc[w1] = "open" /\ pc[w2] = "open"
        /\ Len(BlocksOf(gen[w1])) = 1 /\ Len(BlocksOf(gen[w2])) = 1
        /\ Len(handed) = 2

\* A writer whose Commit has returned the address map.
Committed(w) == pc[w] = "held" /\ gen[w].flushed /\ err[w] = "none"

\* C9: after a successful Commit the persisted superblock's root is the
\* durable address the returned map gives to the address passed to
\* UpdateRootAddr, and ReadDatablock at a durable address of the map
\* returns a block of the type and payload allocated under the temporary
\* address mapped to it.
C9_RoundTrip ==
    \A w \in Writers :
        Committed(w) =>
            /\ tmproot[w] \in DOMAIN amap[w]
            /\ Persisted(Uuid(gen[w]), Number(gen[w])).root = amap[w][tmproot[w]]
            /\ \A r \in Readers : \A t \in DOMAIN amap[w] :
                  (rres[r] = "block" /\ rret[r].Identifier = amap[w][t]) =>
                      \E a \in allocated :
                          /\ a.uuid = Uuid(gen[w]) /\ a.gen = Number(gen[w])
                          /\ a.tmp = t
                          /\ a.kind = rret[r].kind /\ a.payload = rret[r].payload

\* A Generation of a vector block and a core block of different payloads
\* is committed, and the block that is not the root has been read back
\* from the cache.
C9_Witness ==
    \E w \in Writers, r \in Readers :
        /\ Committed(w)
        /\ Cardinality(DOMAIN amap[w]) = 2
        /\ Cardinality({store[d] : d \in DOMAIN store}) = 2
        /\ rres[r] = "block"
        /\ rret[r].Identifier # amap[w][tmproot[w]]
        /\ \E t \in DOMAIN amap[w] : amap[w][t] = rret[r].Identifier
        /\ cachehit > 0

\* C10: the cache never holds more than its configured maximum number of
\* entries.
C10_CacheBounded ==
    /\ cachelen <= CacheMax
    /\ Cardinality(DOMAIN cachemap) <= CacheMax
    /\ Len(lru) <= CacheMax

\* More distinct addresses than the cache holds have been put by two
\* readers, and the cache is full.
C10_Witness ==
    /\ cachemiss > CacheMax
    /\ cachelen = CacheMax
    /\ \A r \in Readers : rpc[r] = "idle" /\ rres[r] = "block"
    /\ rret["r1"].Identifier # rret["r2"].Identifier
    /\ \E r \in Readers : rret[r].Identifier \notin DOMAIN cachemap

\* The addresses of the n last uses (a put, or a get that hit), last first.
LastUsed(n) == SubSeq(recency, 1, IF Len(recency) > n THEN n ELSE Len(recency))

\* C11: the cache evicts in strict LRU order: what it holds is the CacheMax
\* addresses whose last get-hit or put is the most recent, in that order, so
\* the entry a put evicts is the one used longest ago; and the address put
\* or hit last is in the cache, so a get right after a put of it is a hit.
C11_StrictLRU ==
    /\ lru = LastUsed(CacheMax)
    /\ DOMAIN cachemap = {lru[i] : i \in DOMAIN lru}
    /\ recency # <<>> => Head(recency) \in DOMAIN cachemap

\* An entry has been evicted after a get has hit: the evicted address is
\* the one used longest ago and is not in the cache any more.
C11_Witness ==
    /\ cachehit > 0
    /\ Len(recency) > CacheMax
    /\ recency[Len(recency)] \notin DOMAIN cachemap
    /\ Len(lru) = CacheMax

\* No Commit has published a version of the stream.
NeverWritten(id) == commits[id] = <<>>

\* C13: LoadSuperblock reports absence as a normal result: a stream never
\* written has version 0 and LoadSuperblock(id, LatestGeneration) on it
\* returns nil; on a written stream a generation number greater than the
\* latest version returns nil; neither takes the fatal path.
C13_AbsenceIsNormal ==
    [][\A r \in Readers, id \in Streams, g \in 1 .. LatestGeneration :
          LS_Version(r, id, g) =>
              /\ NeverWritten(id) => version[id] = 0
              /\ (NeverWritten(id) /\ g = LatestGeneration) =>
                     (rres'[r] = "nil" /\ rpc'[r] = "idle")
              /\ (~NeverWritten(id) /\ g # LatestGeneration /\ g > version[id]) =>
                     (rres'[r] = "nil" /\ rpc'[r] = "idle")]_vars

\* LoadSuperblock has returned nil for a generation beyond the latest
\* version of a stream that has been committed to.
C13_Witness ==
    \E r \in Readers :
        /\ rpc[r] = "idle"
        /\ rres[r] = "nil"
        /\ ~NeverWritten(rarg[r][1])
        /\ rarg[r][2] # LatestGeneration
        /\ rarg[r][2] > version[rarg[r][1]]

\* The version the stream had when the Generation was obtained: 0 when
\* Cur_SB is the superblock made up for a stream without one.
Synthesized(g) == g.Cur_SB = NewSuperblock(Uuid(g))

CurVersion(g) == IF Synthesized(g) THEN 0 ELSE g.Cur_SB.gen

\* Commit has panicked at the lookup of the root.
CommitPanicked(w) == pc[w] = "panicked" /\ HasGeneration(w)

\* Commit is past the lookup of the root and has yet to publish.
CommitPastRoot(w) == pc[w] \in {"c_wsb", "c_setver"}

\* C14: a Commit whose New_SB.root is not a key of the address map (the
\* root was never set, or no block was allocated) fails fatally without
\* publishing: no superblock of the new generation is persisted, the
\* stream's version is what it was, the Generation is not flushed and the
\* stream's mutex stays locked; and a Commit goes on only with a root that
\* the map resolved.
C14_RootFailureUnpublished ==
    \A w \in Writers :
        /\ CommitPanicked(w) =>
               /\ gen[w].New_SB.root \notin DOMAIN amap[w]
               /\ ReadSuperBlock(Uuid(gen[w]), Number(gen[w])) = NoBytes
               /\ version[Uuid(gen[w])] = CurVersion(gen[w])
               /\ ~gen[w].flushed
               /\ wlocks[Uuid(gen[w])] = "locked"
        /\ CommitPastRoot(w) =>
               /\ tmproot[w] \in DOMAIN amap[w]
               /\ gen[w].New_SB.root = amap[w][tmproot[w]]

\* Commit has panicked with blocks allocated and written and the root
\* never set, on a stream that has a committed version.
C14_Witness ==
    \E w \in Writers :
        /\ CommitPanicked(w)
        /\ tmproot[w] = 0
        /\ amap[w] # NoMap
        /\ ~Synthesized(gen[w])

\* C15: every generation number from 1 to a stream's latest version has a
\* persisted superblock, and no LoadSuperblock reaches the panic
\* "superblock should exist (but doesn't)".
C15_EveryGenerationLoads ==
    /\ \A id \in Streams : \A g \in 1 .. version[id] :
           ReadSuperBlock(id, g) # NoBytes
    /\ \A r \in Readers : rpc[r] # "panicked"

\* Block b carries the generation, point width and start time of context c.
Stamped(b, c) ==
    /\ b.Generation = c[1]
    /\ b.PointWidth = c[2]
    /\ b.StartTime = c[3]

\* C16: every block ReadDatablock returns carries the generation, point
\* width and start time its caller supplied, whether it came from the
\* cache or was decoded.
C16_CallersStamps ==
    \A r \in Readers :
        (rpc[r] = "idle" /\ rres[r] = "block") => Stamped(rret[r], rctx[r])

\* A reader's call has started and has yet to return.
Reading(r) == rpc[r] \in {"rd_put", "ls_read"}

\* C17: readers are never blocked by writers: ReadDatablock and
\* LoadSuperblock can start in every state in which the reader is idle,
\* whatever locks are held, and a call that has started returns (or takes
\* LoadSuperblock's fatal path), also while a Generation of the stream is
\* open and never committed or writers wait in ObtainGeneration.
C17_ReadersNotBlocked ==
    /\ [](rpc[TheReader] = "idle" =>
            /\ ENABLED LS_Version(TheReader, TheStream, LatestGeneration)
            /\ reads < MaxReads => ENABLED RD_Get(TheReader, DbBlocks, 1, 1, 0))
    /\ Reading(TheReader) ~> rpc[TheReader] \in {"idle", "panicked"}

\* The reader is inside a call while one writer's Commit waits for bs.glock,
\* which the other writer holds while it waits in ObtainGeneration for the
\* mutex of the first.
C17_Witness ==
    /\ Reading(TheReader)
    /\ \E t1, t2 \in Writers :
           /\ CommitBlocked(t1)
           /\ glockW = t2
           /\ ObtainBlocked(t2)

\* C18: when the counter wraps below RELOCATION_BASE it is reset to
\* RELOCATION_BASE before the next value is queued: the counter, every
\* address in the channel and every address allocateBlock has returned lie
\* in [RELOCATION_BASE, 2^AddrBits), also after the wraparound.
C18_AddressesInRange ==
    /\ relocation_addr \in RELOCATION_BASE .. AddrMod - 1
    /\ \A i \in DOMAIN alloc : alloc[i] \in RELOCATION_BASE .. AddrMod - 1
    /\ \A i \in DOMAIN handed : handed[i] \in RELOCATION_BASE .. AddrMod - 1

\* The counter has wrapped and the addresses handed out have started again
\* from RELOCATION_BASE.
C18_Witness ==
    /\ wrapped
    /\ Len(handed) > RelocSpan
    /\ handed[RelocSpan] = AddrMod - 1
    /\ handed[RelocSpan + 1] = RELOCATION_BASE

\* A writer is inside allocateBlock, at the receive from bs.alloc.
Allocating(w) == pc[w] = "ab_recv"

\* C20: every allocateBlock call eventually returns, with the generator
\* scheduled fairly, however many callers there are and however full or
\* empty the channel is.
C20_AllocateReturns == \A w \in Writers : Allocating(w) ~> pc[w] = "open"

\* Both writers wait in allocateBlock on an empty channel, after the
\* counter has wrapped.
C20_Witness ==
    /\ \A w \in Writers : Allocating(w)
    /\ alloc = <<>>
    /\ wrapped

\* The superblock the version index of the stream points at.
Published(id) ==
    DeserializeSuperblock(id, version[id], ReadSuperBlock(id, version[id]))

\* C19: while a Generation of a stream is live the stream's version is the
\* generation number of the Cur_SB it loaded, or 0 when Cur_SB was made up
\* for a stream never written, so the version does not change under it;
\* and a Cur_SB that was loaded is the published superblock of the stream.
C19_VersionFixedWhileLive ==
    \A w \in Writers :
        Live(w) =>
            /\ version[Uuid(gen[w])] = CurVersion(gen[w])
            /\ ~Synthesized(gen[w]) => gen[w].Cur_SB = Published(Uuid(gen[w]))

\* A Generation is live that was obtained after the other writer's Commit
\* and starts from the superblock that Commit published.
C19_Witness ==
    \E w1, w2 \in Writers :
        /\ Committed(w1)
        /\ Live(w2)
        /\ gen[w2].Cur_SB = gen[w1].New_SB
        /\ version[Uuid(gen[w2])] = Number(gen[w1])
        /\ Len(BlocksOf(gen[w2])) > 0

====
